---------------------------- MODULE Spec2Model ----------------------------
(***************************************************************************)
(* Model of the document merger in src/app.py: the numbering formatter,    *)
(* the table-of-contents renderer, the appendix stamp, the merge, the page *)
(* numbering and the two-pass generation that drives them.                 *)
(*                                                                         *)
(* Text is a sequence of Unicode code points.  A PDF is a sequence of      *)
(* pages; a page is a record that names where it comes from and what has   *)
(* been drawn on it.  Lengths are in 1/100 point.                          *)
(***************************************************************************)
EXTENDS Integers, Sequences, FiniteSets, TLC

(***************************************************************************)
(* Bounds of the model.                                                    *)
(***************************************************************************)
MaxMain == 3
MaxApp == 19
MaxPages == 5
MaxIndex == 40
MaxUpload == 3
MaxText == 4
MaxToc == 56

(***************************************************************************)
(* Program constants.                                                      *)
(***************************************************************************)
A4_WIDTH == 59528
A4_HEIGHT == 84189
inch == 7200
line_height == 3500
estimated_toc_pages == 1
toc_bottom_gap == 5000
box_width == 7000
box_height == 3000
stamp_margin == 1500

HEBREW_LETTERS ==
  << <<1488>>, <<1489>>, <<1490>>, <<1491>>, <<1492>>, <<1493>>, <<1494>>,
     <<1495>>, <<1496>>, <<1497>>, <<1497,1488>>, <<1497,1489>>,
     <<1497,1490>>, <<1497,1491>>, <<1496,1493>>, <<1496,1494>>,
     <<1497,1494>>, <<1497,1495>>, <<1497,1496>>, <<1499>>, <<1499,1488>>,
     <<1499,1489>>, <<1499,1490>>, <<1499,1491>>, <<1499,1492>>,
     <<1499,1493>>, <<1499,1494>>, <<1499,1495>>, <<1499,1496>>, <<1500>> >>

ROMAN_NUMERALS ==
  << <<73>>, <<73,73>>, <<73,73,73>>, <<73,86>>, <<86>>, <<86,73>>,
     <<86,73,73>>, <<86,73,73,73>>, <<73,88>>, <<88>>, <<88,73>>,
     <<88,73,73>>, <<88,73,73,73>>, <<88,73,86>>, <<88,86>>, <<88,86,73>>,
     <<88,86,73,73>>, <<88,86,73,73,73>>, <<88,73,88>>, <<88,88>>,
     <<88,88,73>>, <<88,88,73,73>>, <<88,88,73,73,73>>, <<88,88,73,86>>,
     <<88,88,86>>, <<88,88,86,73>>, <<88,88,86,73,73>>,
     <<88,88,86,73,73,73>>, <<88,88,73,88>>, <<88,88,88>> >>

NumberingFormats == {"hebrew", "arabic", "roman"}
Templates == {"classic", "modern", "minimal"}

(***************************************************************************)
(* str(n) for n >= 0: the decimal digits of n, most significant first.     *)
(***************************************************************************)
RECURSIVE str(_)
str(n) == IF n < 10 THEN <<48 + n>> ELSE str(n \div 10) \o <<48 + (n % 10)>>

(***************************************************************************)
(* get_appendix_number(index, format_type), index >= 1.                    *)
(***************************************************************************)
\* a formatter without the fallback: the table wraps around
HebrewNoFallback(index) == HEBREW_LETTERS[((index - 1) % Len(HEBREW_LETTERS)) + 1]

HebrewNumber(index) ==
  IF index <= Len(HEBREW_LETTERS) THEN HEBREW_LETTERS[index] ELSE str(index)

RomanNumber(index) ==
  IF index <= Len(ROMAN_NUMERALS) THEN ROMAN_NUMERALS[index] ELSE str(index)

get_appendix_number(index, format_type) ==
  IF format_type = "hebrew" THEN HebrewNumber(index)
  ELSE IF format_type = "roman" THEN RomanNumber(index)
  ELSE str(index)


(***************************************************************************)
(* Pages.  src/doc/idx name the page's origin (doc is the appendix index,  *)
(* 0 for the main document and for generated pages), body is what a        *)
(* generated page shows, rotate is the page's /Rotate entry, w and h its   *)
(* media box, stamp and number the overlays merged onto it.                *)
(***************************************************************************)
RotateAbsent == [kind |-> "absent", val |-> 0]
RotateInt(v) == [kind |-> "int", val |-> v]
RotateName == [kind |-> "name", val |-> 0]

Page(src, doc, idx, body, rotate, w, h) ==
  [src |-> src, doc |-> doc, idx |-> idx, body |-> body, rotate |-> rotate,
   w |-> w, h |-> h, stamp |-> <<>>, number |-> <<>>]

A4Page(src, idx, body) == Page(src, 0, idx, body, RotateAbsent, A4_WIDTH, A4_HEIGHT)

\* concatenation of a sequence of sequences, in order
RECURSIVE Flatten(_)
Flatten(docs) == IF docs = <<>> THEN <<>> ELSE Head(docs) \o Flatten(Tail(docs))

Min(a, b) == IF a <= b THEN a ELSE b
Max(a, b) == IF a >= b THEN a ELSE b

(***************************************************************************)
(* make_cover_pdf: one A4 page showing the label, the title when it is not *)
(* empty, and the page range, in the chosen template.                      *)
(***************************************************************************)
make_cover_pdf(appendix_number, title, start_page, end_page, template) ==
  << A4Page("cover", 1,
            << [number |-> appendix_number, title |-> title,
                start_page |-> start_page, end_page |-> end_page,
                template |-> template] >>) >>

(***************************************************************************)
(* make_toc_pdf: the title, header and rule take the first 55 points under *)
(* the top margin; each entry is drawn at y_position, which then drops by  *)
(* line_height; a page break comes before an entry whose y_position is     *)
(* under margin + 50.  The result is the document and the page counter.    *)
(***************************************************************************)
\* the first entry drawn at the top margin, as on a continuation page
TocFirstRowYNoHeader == A4_HEIGHT - inch

TocFirstRowY == A4_HEIGHT - inch - 2000 - 1000 - 2500

TocNeedsBreak(y_position) == y_position < inch + toc_bottom_gap

\* the rows drawn for entries[i..], as <<page, y, entry>> records
RECURSIVE TocRows(_, _, _, _)
TocRows(entries, i, y_position, pages) ==
  IF i > Len(entries) THEN <<>>
  ELSE LET brk == TocNeedsBreak(y_position)
           y == IF brk THEN A4_HEIGHT - inch ELSE y_position
           p == IF brk THEN pages + 1 ELSE pages
       IN  << [page |-> p, y |-> y, entry |-> entries[i]] >>
             \o TocRows(entries, i + 1, y - line_height, p)

SelectRows(rows, p) == SelectSeq(rows, LAMBDA r : r.page = p)

make_toc_pdf(entries, template) ==
  LET rows == TocRows(entries, 1, TocFirstRowY, 1)
      pages == IF rows = <<>> THEN 1 ELSE rows[Len(rows)].page
  IN  [doc |-> [p \in 1..pages |->
                  A4Page("toc", p, << [header |-> (p = 1), rows |-> SelectRows(rows, p)] >>)],
       pages |-> pages]


(***************************************************************************)
(* add_appendix_marking.                                                   *)
(*                                                                         *)
(* int(page.get('/Rotate') or 0): an absent entry and the number 0 give 0, *)
(* a number gives itself, and int() of an object that is not a number      *)
(* raises.                                                                 *)
(***************************************************************************)
RotationOf(page) ==
  IF page.rotate.kind = "absent" THEN [ok |-> TRUE, val |-> 0]
  ELSE IF page.rotate.kind = "int" THEN [ok |-> TRUE, val |-> page.rotate.val]
  ELSE [ok |-> FALSE, val |-> 0]

\* the canvas point (u, v) in page coordinates after translate(tx, ty),
\* rotate(angle), translate(-box_width/2, -box_height/2); angle is 90 or -90
CanvasPoint(angle, tx, ty, u, v) ==
  LET a == u - box_width \div 2
      b == v - box_height \div 2
  IN  IF angle = 90 THEN <<tx - b, ty + a>> ELSE <<tx + b, ty - a>>

\* the rectangle roundRect(0, 0, box_width, box_height) covers under that transform
RotatedBox(angle, tx, ty) ==
  LET p == CanvasPoint(angle, tx, ty, 0, 0)
      q == CanvasPoint(angle, tx, ty, box_width, box_height)
  IN  [x0 |-> Min(p[1], q[1]), y0 |-> Min(p[2], q[2]),
       x1 |-> Max(p[1], q[1]), y1 |-> Max(p[2], q[2]), angle |-> angle]

PlainBox(box_x, box_y) ==
  [x0 |-> box_x, y0 |-> box_y, x1 |-> box_x + box_width,
   y1 |-> box_y + box_height, angle |-> 0]

\* the stamp box in raw page coordinates, by rotation
StampBox(rotation, raw_width, raw_height) ==
  IF rotation = 0 THEN
    PlainBox(raw_width - box_width - stamp_margin, raw_height - box_height - stamp_margin)
  ELSE IF rotation = 90 THEN
    LET box_x == raw_width - box_height - stamp_margin
        box_y == stamp_margin
    IN  RotatedBox(90, box_x + box_height \div 2, box_y + box_width \div 2)
  ELSE IF rotation = 180 THEN
    PlainBox(stamp_margin, stamp_margin)
  ELSE IF rotation = 270 THEN
    LET box_x == stamp_margin
        box_y == raw_height - box_height - stamp_margin
    IN  RotatedBox(-90, box_x + box_height \div 2, box_y + box_height \div 2)
  ELSE
    PlainBox(raw_width - box_width - stamp_margin, raw_height - box_height - stamp_margin)

StampedPage(page, appendix_number) ==
  [page EXCEPT !.stamp = @ \o
     << [text |-> appendix_number,
         box |-> StampBox(RotationOf(page).val, page.w, page.h)] >>]

\* the stamp overlaid on every page instead of the first only
AddMarkingEveryPage(pdf_bytes, appendix_number) ==
  IF pdf_bytes # <<>> /\ ~RotationOf(pdf_bytes[1]).ok
  THEN [ok |-> FALSE, doc |-> <<>>]
  ELSE [ok |-> TRUE,
        doc |-> [i \in 1..Len(pdf_bytes) |-> StampedPage(pdf_bytes[i], appendix_number)]]

\* [ok, doc]: ok is FALSE when reading the rotation raises
add_appendix_marking(pdf_bytes, appendix_number) ==
  IF pdf_bytes # <<>> /\ ~RotationOf(pdf_bytes[1]).ok
  THEN [ok |-> FALSE, doc |-> <<>>]
  ELSE [ok |-> TRUE,
        doc |-> [i \in 1..Len(pdf_bytes) |->
                   IF i = 1 THEN StampedPage(pdf_bytes[i], appendix_number)
                   ELSE pdf_bytes[i]]]

\* a merge that loses the first document
MergeTail(pdf_list) == Flatten(Tail(pdf_list))

(***************************************************************************)
(* merge_pdfs: every page of every document, in list order.                *)
(***************************************************************************)
merge_pdfs(pdf_list) == Flatten(pdf_list)

(***************************************************************************)
(* add_page_numbers: enumerate(reader.pages, 1) and str(page_num) drawn on *)
(* each page.                                                              *)
(***************************************************************************)
\* enumerate(reader.pages) without the start of 1
PageNumberFromZero(position) == position - 1

PageNumberOf(position) == position

add_page_numbers(pdf_bytes) ==
  [k \in 1..Len(pdf_bytes) |->
     [pdf_bytes[k] EXCEPT !.number = @ \o << str(PageNumberOf(k)) >>]]


(***************************************************************************)
(* two_pass_generate.                                                      *)
(***************************************************************************)
VARIABLES
  main_pdf, main_pages, appendices, settings,   \* the arguments
  pc,                                           \* position in two_pass_generate
  draft_entries, actual_toc_pages,              \* pass 1
  final_entries, appendix_page_info, toc_pdf,   \* pass 2
  pdf_list, merged_pdf, final_pdf,              \* assembly
  toc_renders,                                  \* calls of make_toc_pdf so far
  fn_call, fn_result,                           \* a function called on its own
  session_state, ui                             \* st.session_state and what main() shows

vars == << main_pdf, main_pages, appendices, settings, pc, draft_entries,
           actual_toc_pages, final_entries, appendix_page_info, toc_pdf,
           pdf_list, merged_pdf, final_pdf, toc_renders, fn_call, fn_result,
           session_state, ui >>

numbering_format == settings.numbering
template == settings.template
add_marking == settings.add_marking

\* the cursor left on the last page of the appendix just placed
RECURSIVE DraftLoopOverlap(_, _, _, _)
DraftLoopOverlap(apps, i, current_page, fmt) ==
  IF i > Len(apps) THEN <<>>
  ELSE LET start_page == current_page
           end_page == current_page + apps[i].pages
       IN  << [number |-> get_appendix_number(i, fmt), title |-> apps[i].title,
               start_page |-> start_page, end_page |-> end_page] >>
             \o DraftLoopOverlap(apps, i + 1, end_page, fmt)

\* pass 1, lines 554-569
RECURSIVE DraftLoop(_, _, _, _)
DraftLoop(apps, i, current_page, fmt) ==
  IF i > Len(apps) THEN <<>>
  ELSE LET start_page == current_page
           end_page == current_page + apps[i].pages
       IN  << [number |-> get_appendix_number(i, fmt), title |-> apps[i].title,
               start_page |-> start_page, end_page |-> end_page] >>
             \o DraftLoop(apps, i + 1, end_page + 1, fmt)

\* the measurement skipped: the estimate stands
MeasureTocSkipped(entries, tmpl) == estimated_toc_pages

\* line 571: only the page count of the draft table of contents is kept
MeasureToc(entries, tmpl) == make_toc_pdf(entries, tmpl).pages

\* pass 2, lines 576-594
\* the final pass still laid out with the estimate
FinalFirstPageEstimated(mp, toc_pages) == mp + estimated_toc_pages + 1

\* the first cover sheet placed on the last page of the table of contents
FinalFirstPageNoStep(mp, toc_pages) == mp + toc_pages

FinalFirstPage(mp, toc_pages) == mp + toc_pages + 1

\* the cover sheet counted a second time in the range
FinalEndPageWithCover(current_page, pages) == current_page + pages + 1

FinalEndPage(current_page, pages) == current_page + pages

\* a page skipped between two appendices
FinalNextPageSkip(end_page) == end_page + 2

FinalNextPage(end_page) == end_page + 1

\* titles taken from the other end of the list
FinalEntryReversedTitle(apps, i, start_page, fmt) ==
  [number |-> get_appendix_number(i, fmt), title |-> apps[Len(apps) + 1 - i].title,
   start_page |-> start_page, end_page |-> start_page + apps[i].pages]

FinalEntry(apps, i, start_page, fmt) ==
  [number |-> get_appendix_number(i, fmt), title |-> apps[i].title,
   start_page |-> start_page, end_page |-> FinalEndPage(start_page, apps[i].pages)]

RECURSIVE FinalLoop(_, _, _, _)
FinalLoop(apps, i, current_page, fmt) ==
  IF i > Len(apps) THEN <<>>
  ELSE LET info == FinalEntry(apps, i, current_page, fmt)
       IN  <<info>> \o FinalLoop(apps, i + 1, FinalNextPage(info.end_page), fmt)

\* lines 601-618: the cover sheet and the content of appendices[i..];
\* ok is FALSE when a stamp raises
AppendixContent(appendix, info, marking) ==
  IF marking THEN add_appendix_marking(appendix.pdf_bytes, info.number)
  ELSE [ok |-> TRUE, doc |-> appendix.pdf_bytes]

\* the cover sheet still carrying the range of the draft pass
CoverWithDraftRange(appendix, info, tmpl) ==
  LET shift == actual_toc_pages - estimated_toc_pages
  IN  make_cover_pdf(info.number, appendix.title, info.start_page - shift,
                     info.end_page - shift, tmpl)

CoverOf(appendix, info, tmpl) ==
  make_cover_pdf(info.number, appendix.title, info.start_page, info.end_page, tmpl)

RECURSIVE AppendixDocs(_, _, _, _, _)
AppendixDocs(apps, infos, i, tmpl, marking) ==
  IF i > Len(apps) THEN [ok |-> TRUE, docs |-> <<>>]
  ELSE LET content == AppendixContent(apps[i], infos[i], marking)
           rest == AppendixDocs(apps, infos, i + 1, tmpl, marking)
       IN  IF ~content.ok THEN [ok |-> FALSE, docs |-> <<>>]
           ELSE [ok |-> rest.ok,
                 docs |-> << CoverOf(apps[i], infos[i], tmpl), content.doc >> \o rest.docs]


(***************************************************************************)
(* Inputs.  A document of `pages` pages is loaded with that page count     *)
(* (load_and_normalize_file).  An appendix list of n appendices is drawn   *)
(* from a family indexed by a shape: pb and ps give the page counts        *)
(* (pb, pb + ps, pb + 2 ps, ... modulo MaxPages + 1), alternate appendices *)
(* have an empty title and the others a title that names their position,   *)
(* and rs gives the /Rotate entries of the first pages: a cycle through    *)
(* the numeric values starting at the rs-th, or for rs = 0 the same cycle  *)
(* with a /Rotate that is not a number on the first appendix.              *)
(***************************************************************************)
RotateCycle ==
  << RotateAbsent, RotateInt(0), RotateInt(90), RotateInt(180), RotateInt(270),
     RotateInt(45) >>

PageSizes == << <<A4_WIDTH, A4_HEIGHT>>, <<A4_HEIGHT, A4_WIDTH>>, <<10000, 10000>> >>

Shapes ==
  { [pb |-> b, ps |-> t, rs |-> 1] : b \in 0..MaxPages, t \in 0..1 }
    \cup { [pb |-> 1, ps |-> 1, rs |-> r] : r \in 0..Len(RotateCycle) }

PagesAt(sh, i) == (sh.pb + (i - 1) * sh.ps) % (MaxPages + 1)

TitleAt(sh, i) == IF (i + sh.ps) % 2 = 0 THEN <<>> ELSE <<1514>> \o str(i)

RotateAt(sh, i) ==
  IF sh.rs = 0 /\ i = 1 THEN RotateName
  ELSE RotateCycle[((sh.rs + i + Len(RotateCycle) - 2) % Len(RotateCycle)) + 1]

SizeAt(sh, i) == PageSizes[((sh.pb + i) % Len(PageSizes)) + 1]

AppendixPdf(sh, i) ==
  [k \in 1..PagesAt(sh, i) |->
     Page("app", i, k, <<>>, IF k = 1 THEN RotateAt(sh, i) ELSE RotateAbsent,
          SizeAt(sh, i)[1], SizeAt(sh, i)[2])]

AppendixList(sh, n) ==
  [i \in 1..n |-> [title |-> TitleAt(sh, i), pages |-> PagesAt(sh, i),
                   pdf_bytes |-> AppendixPdf(sh, i)]]

MainPdf(n) == [k \in 1..n |-> Page("main", 0, k, <<>>, RotateAbsent, A4_WIDTH, A4_HEIGHT)]

NoCall == [index |-> 0, format_type |-> "arabic"]

\* main() not started: nothing uploaded, nothing shown
NoSession == [files_data |-> <<>>, main_index |-> 0]

NoUi == [uploaded |-> <<>>, errors |-> {}, download |-> <<>>]

Init ==
  /\ \E n \in 0..MaxMain : main_pages = n /\ main_pdf = MainPdf(n)
  /\ \E sh \in Shapes, n \in 0..MaxApp : appendices = AppendixList(sh, n)
  /\ settings \in [numbering : NumberingFormats, template : Templates,
                   add_marking : BOOLEAN]
  /\ pc = "start"
  /\ draft_entries = <<>>
  /\ actual_toc_pages = 0
  /\ final_entries = <<>>
  /\ appendix_page_info = <<>>
  /\ toc_pdf = <<>>
  /\ pdf_list = <<>>
  /\ merged_pdf = <<>>
  /\ final_pdf = <<>>
  /\ toc_renders = 0
  /\ fn_call = NoCall
  /\ fn_result = <<>>
  /\ session_state = NoSession
  /\ ui = NoUi

inputs == << main_pdf, main_pages, appendices, settings, fn_call, fn_result,
             session_state, ui >>

\* lines 554-569
Pass1 ==
  /\ pc = "start"
  /\ draft_entries' = DraftLoop(appendices, 1, main_pages + estimated_toc_pages + 1,
                                numbering_format)
  /\ pc' = "pass1"
  /\ UNCHANGED << inputs, actual_toc_pages, final_entries, appendix_page_info,
                  toc_pdf, pdf_list, merged_pdf, final_pdf, toc_renders >>

\* line 571
MeasureDraftToc ==
  /\ pc = "pass1"
  /\ actual_toc_pages' = MeasureToc(draft_entries, template)
  /\ toc_renders' = toc_renders + 1
  /\ pc' = "measured"
  /\ UNCHANGED << inputs, draft_entries, final_entries, appendix_page_info,
                  toc_pdf, pdf_list, merged_pdf, final_pdf >>

\* lines 576-594
Pass2 ==
  /\ pc = "measured"
  /\ final_entries' = FinalLoop(appendices, 1,
                                FinalFirstPage(main_pages, actual_toc_pages),
                                numbering_format)
  /\ appendix_page_info' = final_entries'
  /\ pc' = "pass2"
  /\ UNCHANGED << inputs, draft_entries, actual_toc_pages, toc_pdf, pdf_list,
                  merged_pdf, final_pdf, toc_renders >>

\* a final render followed by one more to compare the page counts
RenderFinalTocChecked ==
  /\ pc = "pass2"
  /\ toc_pdf' = make_toc_pdf(final_entries, template).doc
  /\ toc_renders' = toc_renders + 2
  /\ pc' = "toc"
  /\ UNCHANGED << inputs, draft_entries, actual_toc_pages, final_entries,
                  appendix_page_info, pdf_list, merged_pdf, final_pdf >>

\* line 596
RenderFinalToc ==
  /\ pc = "pass2"
  /\ toc_pdf' = make_toc_pdf(final_entries, template).doc
  /\ toc_renders' = toc_renders + 1
  /\ pc' = "toc"
  /\ UNCHANGED << inputs, draft_entries, actual_toc_pages, final_entries,
                  appendix_page_info, pdf_list, merged_pdf, final_pdf >>

\* lines 598-618; an exception of add_appendix_marking ends the call
BuildPdfList ==
  /\ pc = "toc"
  /\ LET built == AppendixDocs(appendices, appendix_page_info, 1, template, add_marking)
     IN  IF built.ok
         THEN pdf_list' = << main_pdf, toc_pdf >> \o built.docs /\ pc' = "built"
         ELSE pdf_list' = pdf_list /\ pc' = "raised"
  /\ UNCHANGED << inputs, draft_entries, actual_toc_pages, final_entries,
                  appendix_page_info, toc_pdf, merged_pdf, final_pdf, toc_renders >>

\* line 621
MergePdfs ==
  /\ pc = "built"
  /\ merged_pdf' = merge_pdfs(pdf_list)
  /\ pc' = "merged"
  /\ UNCHANGED << inputs, draft_entries, actual_toc_pages, final_entries,
                  appendix_page_info, toc_pdf, pdf_list, final_pdf, toc_renders >>

\* lines 622-624
AddPageNumbers ==
  /\ pc = "merged"
  /\ final_pdf' = add_page_numbers(merged_pdf)
  /\ pc' = "done"
  /\ UNCHANGED << inputs, draft_entries, actual_toc_pages, final_entries,
                  appendix_page_info, toc_pdf, pdf_list, merged_pdf, toc_renders >>

Next ==
  \/ Pass1
  \/ MeasureDraftToc
  \/ Pass2
  \/ RenderFinalToc
  \/ BuildPdfList
  \/ MergePdfs
  \/ AddPageNumbers

Spec == Init /\ [][Next]_vars

(***************************************************************************)
(* A call of get_appendix_number on its own.                               *)
(***************************************************************************)
InitNumbering ==
  /\ main_pages = 0 /\ main_pdf = <<>> /\ appendices = <<>>
  /\ settings = [numbering |-> "hebrew", template |-> "classic", add_marking |-> TRUE]
  /\ pc = "idle"
  /\ draft_entries = <<>> /\ actual_toc_pages = 0 /\ final_entries = <<>>
  /\ appendix_page_info = <<>> /\ toc_pdf = <<>> /\ pdf_list = <<>>
  /\ merged_pdf = <<>> /\ final_pdf = <<>> /\ toc_renders = 0
  /\ fn_call \in [index : 1..MaxIndex, format_type : NumberingFormats]
  /\ fn_result = <<>>
  /\ session_state = NoSession
  /\ ui = NoUi

GetAppendixNumber ==
  /\ pc = "idle"
  /\ fn_result = <<>>
  /\ fn_result' = << get_appendix_number(fn_call.index, fn_call.format_type) >>
  /\ UNCHANGED << main_pdf, main_pages, appendices, settings, pc, draft_entries,
                  actual_toc_pages, final_entries, appendix_page_info, toc_pdf,
                  pdf_list, merged_pdf, final_pdf, toc_renders, fn_call,
                  session_state, ui >>

NextNumbering == GetAppendixNumber

SpecNumbering == InitNumbering /\ [][NextNumbering]_vars


\* the variables of two_pass_generate, and their values when it is not running
pipeline == << main_pdf, main_pages, appendices, settings, pc, draft_entries,
               actual_toc_pages, final_entries, appendix_page_info, toc_pdf,
               pdf_list, merged_pdf, final_pdf, toc_renders >>

PipelineIdle ==
  /\ main_pages = 0 /\ main_pdf = <<>> /\ appendices = <<>>
  /\ pc = "idle"
  /\ draft_entries = <<>> /\ actual_toc_pages = 0 /\ final_entries = <<>>
  /\ appendix_page_info = <<>> /\ toc_pdf = <<>> /\ pdf_list = <<>>
  /\ merged_pdf = <<>> /\ final_pdf = <<>> /\ toc_renders = 0

(***************************************************************************)
(* two_pass_generate as one call: the steps above in their order.          *)
(***************************************************************************)
TwoPassGenerate(mpdf, mpages, apps, sett) ==
  LET draft == DraftLoop(apps, 1, mpages + estimated_toc_pages + 1, sett.numbering)
      toc_pages == MeasureToc(draft, sett.template)
      final == FinalLoop(apps, 1, FinalFirstPage(mpages, toc_pages), sett.numbering)
      toc == make_toc_pdf(final, sett.template).doc
      built == AppendixDocs(apps, final, 1, sett.template, sett.add_marking)
  IN  IF built.ok
      THEN [ok |-> TRUE, pdf |-> add_page_numbers(merge_pdfs(<< mpdf, toc >> \o built.docs))]
      ELSE [ok |-> FALSE, pdf |-> <<>>]

(***************************************************************************)
(* main(): the upload handler and the generate button.  An uploaded file   *)
(* is a PDF or an image, readable or not; load_and_normalize_file raises   *)
(* on an unreadable one, gives a PDF its page count and an image one page. *)
(***************************************************************************)
UploadableFiles ==
  { [name |-> "a.pdf", kind |-> "pdf", readable |-> TRUE, pages |-> 1],
    [name |-> "b.pdf", kind |-> "pdf", readable |-> TRUE, pages |-> 2],
    [name |-> "c.png", kind |-> "image", readable |-> TRUE, pages |-> 1],
    [name |-> "d.pdf", kind |-> "pdf", readable |-> FALSE, pages |-> 1] }

\* the lists the uploader can hand over: distinct files, at most MaxUpload
UploadLists ==
  { up \in UNION { [1..n -> UploadableFiles] : n \in 0..MaxUpload } :
      \A i, j \in DOMAIN up : i # j => up[i].name # up[j].name }

FilePdf(file, n) ==
  [k \in 1..n |-> Page(file.name, 0, k, <<>>, RotateAbsent, A4_WIDTH, A4_HEIGHT)]

load_and_normalize_file(file) ==
  IF ~file.readable THEN [ok |-> FALSE, pdf_bytes |-> <<>>, pages |-> 0]
  ELSE IF file.kind = "pdf"
       THEN [ok |-> TRUE, pdf_bytes |-> FilePdf(file, file.pages), pages |-> file.pages]
       ELSE [ok |-> TRUE, pdf_bytes |-> FilePdf(file, 1), pages |-> 1]

NamesOf(files) == { files[i].name : i \in DOMAIN files }

\* lines 787-800: the files not yet known are loaded and appended, an
\* unreadable one is reported and left out
RECURSIVE LoadNew(_, _, _, _)
LoadNew(up, i, data, current_names) ==
  IF i > Len(up) THEN data
  ELSE IF up[i].name \in current_names THEN LoadNew(up, i + 1, data, current_names)
  ELSE LET loaded == load_and_normalize_file(up[i])
       IN  IF loaded.ok
           THEN LoadNew(up, i + 1,
                        Append(data, [name |-> up[i].name, title |-> <<>>,
                                      pdf_bytes |-> loaded.pdf_bytes,
                                      pages |-> loaded.pages]),
                        current_names)
           ELSE LoadNew(up, i + 1, data, current_names)

LoadErrors(up, current_names) ==
  { up[i].name : i \in { j \in DOMAIN up :
       up[j].name \notin current_names /\ ~load_and_normalize_file(up[j]).ok } }

ClampMainIndex(index, data) == IF index >= Len(data) THEN 0 ELSE index

InitSession ==
  /\ PipelineIdle
  /\ settings \in [numbering : NumberingFormats, template : Templates,
                   add_marking : BOOLEAN]
  /\ fn_call = NoCall
  /\ fn_result = <<>>
  /\ session_state = NoSession
  /\ ui = NoUi

\* lines 779-812: a run of main() with the uploader holding the list up
UploadFiles ==
  \E up \in UploadLists :
    /\ up # ui.uploaded
    /\ LET current_names == NamesOf(session_state.files_data)
           loaded == LoadNew(up, 1, session_state.files_data, current_names)
           kept == SelectSeq(loaded, LAMBDA f : f.name \in NamesOf(up))
       IN  /\ session_state' =
                IF up = <<>> THEN [files_data |-> <<>>, main_index |-> 0]
                ELSE [files_data |-> kept,
                      main_index |-> ClampMainIndex(session_state.main_index, kept)]
           /\ ui' = [uploaded |-> up,
                     errors |-> IF up = <<>> THEN {} ELSE LoadErrors(up, current_names),
                     download |-> <<>>]
    /\ UNCHANGED << pipeline, fn_call, fn_result >>

\* lines 820-827: the radio button
SelectMain ==
  \E i \in 0..(Len(session_state.files_data) - 1) :
    /\ i # session_state.main_index
    /\ session_state' = [session_state EXCEPT !.main_index = i]
    /\ ui' = [ui EXCEPT !.download = <<>>,
                        !.errors = LoadErrors(ui.uploaded, NamesOf(session_state.files_data))]
    /\ UNCHANGED << pipeline, fn_call, fn_result >>

\* lines 885-950: the generate button, shown when there are two files or more
Generate ==
  /\ Len(session_state.files_data) >= 2
  /\ ui.download = <<>>
  /\ LET data == session_state.files_data
         main_data == data[session_state.main_index + 1]
         others == SelectSeq(data, LAMBDA f : f.name # main_data.name)
         appendix_list == [i \in 1..Len(others) |->
                             [pdf_bytes |-> others[i].pdf_bytes,
                              pages |-> others[i].pages, title |-> others[i].title]]
         made == TwoPassGenerate(main_data.pdf_bytes, main_data.pages,
                                 appendix_list, settings)
     IN  ui' = IF made.ok
               THEN [ui EXCEPT !.download = << made.pdf >>]
               ELSE [ui EXCEPT !.errors = @ \cup {"generate"}]
  /\ UNCHANGED << pipeline, fn_call, fn_result, session_state >>

NextSession ==
  \/ UploadFiles
  \/ SelectMain
  \/ Generate

SpecSession == InitSession /\ [][NextSession]_vars

(***************************************************************************)
(* reverse_hebrew.  get_display is the bidi library's: the Unicode         *)
(* Bidirectional Algorithm, here for text of Hebrew letters, digits and    *)
(* spaces.  A Hebrew letter makes the paragraph right-to-left (level 1);   *)
(* in it letters and spaces are at level 1 and digits at level 2; without  *)
(* a Hebrew letter everything is at level 0.  The display order reverses   *)
(* every run at level 2 or more, then every run at level 1 or more.        *)
(***************************************************************************)
IsHebrewLetter(c) == c \in 1488..1514
IsDigit(c) == c \in 48..57

\* text[::-1]
NaiveReverse(text) == [i \in 1..Len(text) |-> text[Len(text) + 1 - i]]

BidiLevels(text) ==
  LET rtl == \E i \in 1..Len(text) : IsHebrewLetter(text[i])
  IN  [i \in 1..Len(text) |->
         [c |-> text[i],
          lvl |-> IF ~rtl THEN 0 ELSE IF IsDigit(text[i]) THEN 2 ELSE 1]]

\* the length of the longest prefix of items at level lvl or more
RECURSIVE RunLength(_, _)
RunLength(items, lvl) ==
  IF items = <<>> \/ Head(items).lvl < lvl THEN 0
  ELSE 1 + RunLength(Tail(items), lvl)

RECURSIVE ReverseRuns(_, _)
ReverseRuns(items, lvl) ==
  IF items = <<>> THEN <<>>
  ELSE LET n == RunLength(items, lvl)
       IN  IF n = 0 THEN << Head(items) >> \o ReverseRuns(Tail(items), lvl)
           ELSE NaiveReverse(SubSeq(items, 1, n))
                  \o ReverseRuns(SubSeq(items, n + 1, Len(items)), lvl)

get_display(text) ==
  LET shown == ReverseRuns(ReverseRuns(BidiLevels(text), 2), 1)
  IN  [i \in 1..Len(text) |-> shown[i].c]

\* a reverse_hebrew that never finds the library
ReverseHebrewNoBidi(text, bidi_available) ==
  IF text = <<>> THEN text ELSE NaiveReverse(text)

\* bidi_available: whether `from bidi.algorithm import get_display` succeeds
reverse_hebrew(text, bidi_available) ==
  IF text = <<>> THEN text
  ELSE IF bidi_available THEN get_display(text)
  ELSE NaiveReverse(text)

TextAlphabet == {1488, 1489, 55, 50, 51, 32}

Texts == UNION { [1..n -> TextAlphabet] : n \in 0..MaxText }

InitBidi ==
  /\ PipelineIdle
  /\ settings = [numbering |-> "hebrew", template |-> "classic", add_marking |-> TRUE]
  /\ fn_call \in [text : Texts, bidi_available : BOOLEAN]
  /\ fn_result = <<>>
  /\ session_state = NoSession
  /\ ui = NoUi

ReverseHebrew ==
  /\ pc = "idle"
  /\ fn_result = <<>>
  /\ fn_result' = << reverse_hebrew(fn_call.text, fn_call.bidi_available) >>
  /\ UNCHANGED << pipeline, fn_call, session_state, ui >>

NextBidi == ReverseHebrew

SpecBidi == InitBidi /\ [][NextBidi]_vars

(***************************************************************************)
(* A call of make_toc_pdf on its own, with n entries whose labels, titles  *)
(* and page ranges are drawn in two different styles.                      *)
(***************************************************************************)
EntryStyles == {"short", "long"}

TocEntry(i, style) ==
  IF style = "short"
  THEN [number |-> get_appendix_number(i, "hebrew"), title |-> <<>>,
        start_page |-> i, end_page |-> i]
  ELSE [number |-> get_appendix_number(i, "arabic"), title |-> << 1488, 1489, 32, 1490 >>,
        start_page |-> 100 * i, end_page |-> 100 * i + 99]

TocEntries(n, style) == [i \in 1..n |-> TocEntry(i, style)]

InitToc ==
  /\ PipelineIdle
  /\ settings = [numbering |-> "hebrew", template |-> "classic", add_marking |-> TRUE]
  /\ fn_call \in [n : 0..MaxToc, style : EntryStyles, template : Templates]
  /\ fn_result = <<>>
  /\ session_state = NoSession
  /\ ui = NoUi

MakeTocPdf ==
  /\ pc = "idle"
  /\ fn_result = <<>>
  /\ fn_result' = << make_toc_pdf(TocEntries(fn_call.n, fn_call.style),
                                  fn_call.template) >>
  /\ UNCHANGED << pipeline, fn_call, session_state, ui >>

NextToc == MakeTocPdf

SpecToc == InitToc /\ [][NextToc]_vars

(***************************************************************************)
(* Properties.                                                             *)
(***************************************************************************)
RECURSIVE ParseDecimal(_)
ParseDecimal(s) ==
  IF s = <<>> THEN 0
  ELSE 10 * ParseDecimal(SubSeq(s, 1, Len(s) - 1)) + (s[Len(s)] - 48)

\* s is the decimal numeral of n: digits only, no leading zero, value n
IsDecimalOf(s, n) ==
  /\ Len(s) >= 1
  /\ \A j \in 1..Len(s) : s[j] \in 48..57
  /\ Len(s) > 1 => s[1] # 48
  /\ ParseDecimal(s) = n

\* the label the numbering tables give index k
TableLabel(k, fmt) == IF fmt = "hebrew" THEN HEBREW_LETTERS[k] ELSE ROMAN_NUMERALS[k]

IsLabelOf(s, k, fmt) ==
  IF fmt \in {"hebrew", "roman"} /\ k <= 30 THEN s = TableLabel(k, fmt)
  ELSE IsDecimalOf(s, k)

\* the entries printed on the table-of-contents pages of a document, in order
RECURSIVE PrintedEntries(_)
PrintedEntries(pdf) ==
  IF pdf = <<>> THEN <<>>
  ELSE (IF Head(pdf).src = "toc"
        THEN [j \in 1..Len(Head(pdf).body[1].rows) |-> Head(pdf).body[1].rows[j].entry]
        ELSE <<>>) \o PrintedEntries(Tail(pdf))

TocPagesIn(pdf) == Cardinality({k \in 1..Len(pdf) : pdf[k].src = "toc"})

\* a page as it was before any overlay
Bare(page) == [page EXCEPT !.stamp = <<>>, !.number = <<>>]

IsCoverOf(page, i) ==
  /\ page.src = "cover"
  /\ IsLabelOf(page.body[1].number, i, numbering_format)
  /\ page.body[1].title = appendices[i].title

IsContentOf(page, i, k) == Bare(page) = appendices[i].pdf_bytes[k]

AfterPass2 == pc \in {"pass2", "toc", "built", "raised", "merged", "done"}

\* C1: in the returned PDF the range start_page..end_page printed in the
\* table of contents for appendix i holds exactly appendix i's cover sheet
\* followed by appendix i's content pages.
C1_PrintedRangesMatchOutput ==
  pc = "done" =>
    LET printed == PrintedEntries(final_pdf)
    IN  /\ Len(printed) = Len(appendices)
        /\ \A i \in 1..Len(appendices) :
             LET e == printed[i]
                 n == Len(appendices[i].pdf_bytes)
             IN  /\ 1 <= e.start_page
                 /\ e.end_page <= Len(final_pdf)
                 /\ e.end_page - e.start_page = n
                 /\ IsCoverOf(final_pdf[e.start_page], i)
                 /\ \A k \in 1..n : IsContentOf(final_pdf[e.start_page + k], i, k)

C1_Witness ==
  /\ pc = "done"
  /\ TocPagesIn(final_pdf) = 2
  /\ settings.add_marking
  /\ \E i \in 1..Len(appendices) : appendices[i].pages >= 2

\* C2: the first appendix's start page is the main page count plus the page
\* count of the final table of contents plus 1.
C2_FirstStartPage ==
  (pc \in {"toc", "built", "raised", "merged", "done"} /\ final_entries # <<>>) =>
    final_entries[1].start_page = main_pages + Len(toc_pdf) + 1

C2_Witness ==
  /\ pc = "done"
  /\ Len(toc_pdf) = 2
  /\ main_pages = 0
  /\ final_entries # <<>>

\* C3 as stated: each entry starts two pages after the end of the one before.
C3_GapOfTwo ==
  AfterPass2 =>
    \A i \in 1..(Len(final_entries) - 1) :
      final_entries[i + 1].start_page = final_entries[i].end_page + 2

\* C3 as amended: each entry starts on the page right after the end of the
\* one before, and that page of the output is the next appendix's cover sheet.
C3_NextStartsAfterEnd ==
  /\ AfterPass2 =>
       \A i \in 1..(Len(final_entries) - 1) :
         final_entries[i + 1].start_page = final_entries[i].end_page + 1
  /\ pc = "done" =>
       \A i \in 1..(Len(final_entries) - 1) :
         IsCoverOf(final_pdf[final_entries[i].end_page + 1], i + 1)

C3_Witness == pc = "done" /\ Len(final_entries) >= 2

ScenarioA ==
  /\ main_pages = 3
  /\ Len(appendices) = 1
  /\ appendices[1].pages = 5
  /\ actual_toc_pages = 1

\* C4 as stated: scenario A gives start_page 5 and end_page 11.
C4_ScenarioAEndsAt11 ==
  (AfterPass2 /\ ScenarioA) =>
    final_entries[1].start_page = 5 /\ final_entries[1].end_page = 11

\* C4 as amended: scenario A gives start_page 5 and end_page 10.
C4_ScenarioAEndsAt10 ==
  (AfterPass2 /\ ScenarioA) =>
    final_entries[1].start_page = 5 /\ final_entries[1].end_page = 10

C4_Witness == pc = "done" /\ ScenarioA

\* C5: the page count make_toc_pdf gives for the final entries is the
\* actual_toc_pages the final entries were computed with, and the final
\* table of contents has that many pages.
C5_FinalTocCountIsOffset ==
  /\ AfterPass2 => make_toc_pdf(final_entries, template).pages = actual_toc_pages
  /\ pc \in {"toc", "built", "raised", "merged", "done"} => Len(toc_pdf) = actual_toc_pages

C5_Witness == pc = "done" /\ actual_toc_pages = 2 /\ Len(toc_pdf) = 2

\* C6: there are as many final entries as appendices, entry k has the label
\* of index k and the title of the k-th appendix, and the table of contents
\* prints them in that order.
C6_EntriesInInputOrder ==
  /\ AfterPass2 =>
       /\ Len(final_entries) = Len(appendices)
       /\ \A k \in 1..Len(final_entries) :
            /\ IsLabelOf(final_entries[k].number, k, numbering_format)
            /\ final_entries[k].title = appendices[k].title
  /\ pc = "done" => PrintedEntries(final_pdf) = final_entries

C6_Witness == pc = "done" /\ Len(final_entries) = MaxApp

\* C7: get_appendix_number gives the index-th element of the 30-entry table
\* under hebrew and roman for an index up to 30, and the decimal numeral of
\* the index otherwise.
C7_NumberingFormatter ==
  /\ Len(HEBREW_LETTERS) = 30
  /\ Len(ROMAN_NUMERALS) = 30
  /\ fn_result # <<>> =>
       LET r == fn_result[1]
           k == fn_call.index
           f == fn_call.format_type
       IN  /\ (f = "hebrew" /\ k <= 30) => r = HEBREW_LETTERS[k]
           /\ (f = "roman" /\ k <= 30) => r = ROMAN_NUMERALS[k]
           /\ (f = "arabic" \/ k >= 31) => IsDecimalOf(r, k)

C7_Witness ==
  /\ fn_call = [index |-> 31, format_type |-> "hebrew"]
  /\ fn_result = << <<51, 49>> >>

\* the appendix that position k of the output belongs to, k past the main
\* document and the table of contents
RECURSIVE PagesThrough(_)
PagesThrough(i) == IF i = 0 THEN 0 ELSE PagesThrough(i - 1) + 1 + appendices[i].pages

\* C8: the returned PDF is the main pages, then the pages of the final table
\* of contents, then for each appendix in order its cover sheet and its
\* content pages, and its length is the sum of these.
C8_OutputPageSequence ==
  pc = "done" =>
    LET m == main_pages
        t == actual_toc_pages
    IN  /\ Len(final_pdf) = m + t + PagesThrough(Len(appendices))
        /\ \A k \in 1..Len(final_pdf) :
             IF k <= m THEN Bare(final_pdf[k]) = main_pdf[k]
             ELSE IF k <= m + t THEN Bare(final_pdf[k]) = toc_pdf[k - m]
             ELSE LET i == CHOOSE j \in 1..Len(appendices) :
                             m + t + PagesThrough(j - 1) < k /\ k <= m + t + PagesThrough(j)
                      o == k - (m + t + PagesThrough(i - 1))
                  IN  IF o = 1 THEN IsCoverOf(final_pdf[k], i)
                      ELSE IsContentOf(final_pdf[k], i, o - 1)

C8_Witness ==
  /\ pc = "done"
  /\ main_pages >= 1
  /\ Len(toc_pdf) = 2
  /\ Len(final_pdf) > main_pages + 2 + Len(appendices)

\* C9: no page carries a number before the documents are concatenated, and
\* in the returned PDF page k is page k of the concatenation with the
\* numeral of k, and nothing else, added.
C9_NumberedAfterMerge ==
  /\ pc # "done" =>
       /\ final_pdf = <<>>
       /\ \A k \in 1..Len(merged_pdf) : merged_pdf[k].number = <<>>
       /\ \A d \in 1..Len(pdf_list) : \A k \in 1..Len(pdf_list[d]) :
            pdf_list[d][k].number = <<>>
  /\ pc = "done" =>
       /\ merged_pdf = Flatten(pdf_list)
       /\ Len(final_pdf) = Len(merged_pdf)
       /\ \A k \in 1..Len(final_pdf) :
            /\ Len(final_pdf[k].number) = 1
            /\ IsDecimalOf(final_pdf[k].number[1], k)
            /\ [final_pdf[k] EXCEPT !.number = <<>>] = merged_pdf[k]

C9_Witness == pc = "done" /\ Len(final_pdf) >= 12 /\ Len(pdf_list) >= 4

IsGarbageRotate(r) ==
  \/ r.kind = "absent"
  \/ r.kind = "name"
  \/ r.kind = "int" /\ r.val \notin {0, 90, 180, 270}

\* C10: a first page whose /Rotate is missing, not one of 0, 90, 180, 270,
\* or not a number is stamped as a page of rotation 0, and stamping it
\* never raises.
C10_GarbageRotateIsZero ==
  (settings.add_marking /\ pc \in {"built", "raised", "merged", "done"}) =>
    /\ pc # "raised"
    /\ \A i \in 1..Len(appendices) :
         (appendices[i].pages >= 1 /\ IsGarbageRotate(appendices[i].pdf_bytes[1].rotate)) =>
           LET page == pdf_list[2 * i + 2][1]
           IN  /\ Len(page.stamp) = 1
               /\ page.stamp[1].box = PlainBox(page.w - box_width - stamp_margin,
                                               page.h - box_height - stamp_margin)

(***************************************************************************)
(* What a viewer shows.  /Rotate r turns the page r degrees clockwise for  *)
(* display: the raw point (x, y) of a page of raw size W x H is shown at   *)
(* DisplayPoint, on a displayed page of size DisplaySize, and a drawing    *)
(* turned counter-clockwise by `angle` in raw coordinates is shown turned  *)
(* by angle - r.                                                           *)
(***************************************************************************)
DisplayPoint(r, W, H, x, y) ==
  IF r = 90 THEN <<y, W - x>>
  ELSE IF r = 180 THEN <<W - x, H - y>>
  ELSE IF r = 270 THEN <<H - y, x>>
  ELSE <<x, y>>

DisplaySize(r, W, H) == IF r \in {90, 270} THEN <<H, W>> ELSE <<W, H>>

DisplayedBox(r, W, H, box) ==
  LET p == DisplayPoint(r, W, H, box.x0, box.y0)
      q == DisplayPoint(r, W, H, box.x1, box.y1)
  IN  [x0 |-> Min(p[1], q[1]), y0 |-> Min(p[2], q[2]),
       x1 |-> Max(p[1], q[1]), y1 |-> Max(p[2], q[2]),
       angle |-> (box.angle - r + 720) % 360]

\* the stamp of a stamped page as displayed: a box_width x box_height box,
\* upright, stamp_margin from the top and right edges of the displayed page
StampShownTopRight(page) ==
  LET r == RotationOf(page).val
      size == DisplaySize(r, page.w, page.h)
      shown == DisplayedBox(r, page.w, page.h, page.stamp[1].box)
  IN  /\ shown.x1 = size[1] - stamp_margin
      /\ shown.y1 = size[2] - stamp_margin
      /\ shown.x0 = shown.x1 - box_width
      /\ shown.y0 = shown.y1 - box_height
      /\ shown.angle = 0

Stamped == settings.add_marking /\ pc \in {"built", "merged", "done"}

\* the stamped first page of appendix i in pdf_list
StampedFirstPage(i) == pdf_list[2 * i + 2][1]

HasRotation(i, r) ==
  /\ appendices[i].pages >= 1
  /\ appendices[i].pdf_bytes[1].rotate = RotateInt(r)

\* C11: for each stored rotation 0, 90, 180 and 270 the stamp is displayed
\* upright in the top-right corner of the displayed page.
C11_StampShownTopRight ==
  Stamped =>
    \A i \in 1..Len(appendices) : \A r \in {0, 90, 180, 270} :
      HasRotation(i, r) =>
        /\ Len(StampedFirstPage(i).stamp) = 1
        /\ StampShownTopRight(StampedFirstPage(i))

\* C12: when an uploaded document is unreadable, no PDF is offered for
\* download, not even one made of the readable documents.
C12_NoOutputWithUnreadableInput ==
  (\E i \in DOMAIN ui.uploaded : ~ui.uploaded[i].readable) => ui.download = <<>>

\* the digit run around position i of text
RECURSIVE RunStart(_, _)
RunStart(text, i) ==
  IF i > 1 /\ IsDigit(text[i - 1]) THEN RunStart(text, i - 1) ELSE i

RECURSIVE RunEnd(_, _)
RunEnd(text, i) ==
  IF i < Len(text) /\ IsDigit(text[i + 1]) THEN RunEnd(text, i + 1) ELSE i

\* where character i of text stands when the text is laid out right to left
\* with each digit run read left to right
VisualPosition(text, i) ==
  IF IsDigit(text[i])
  THEN Len(text) + 1 - RunEnd(text, i) + (i - RunStart(text, i))
  ELSE Len(text) + 1 - i

KeepsDigitRuns(text, out) ==
  /\ Len(out) = Len(text)
  /\ \A i \in 1..Len(text) : out[VisualPosition(text, i)] = text[i]

Mirrors(text, out) ==
  /\ Len(out) = Len(text)
  /\ \A i \in 1..Len(text) : out[Len(text) + 1 - i] = text[i]

HebrewWithDigits(text) ==
  /\ \E i \in 1..Len(text) : IsHebrewLetter(text[i])
  /\ \E i \in 1..Len(text) : IsDigit(text[i])

\* C13 as stated: for Hebrew text with a digit run reverse_hebrew lays the
\* Hebrew out right to left and keeps every digit run in its order; empty
\* input gives empty output.
C13_DigitRunKeepsOrder ==
  fn_result # <<>> =>
    /\ fn_call.text = <<>> => fn_result[1] = <<>>
    /\ HebrewWithDigits(fn_call.text) => KeepsDigitRuns(fn_call.text, fn_result[1])

\* C13 as amended: that holds when the bidi library can be imported;
\* without it the result is the text mirrored, digit runs included.
C13_DigitRunKeepsOrderWithBidi ==
  fn_result # <<>> =>
    /\ fn_call.text = <<>> => fn_result[1] = <<>>
    /\ (HebrewWithDigits(fn_call.text) /\ fn_call.bidi_available) =>
         KeepsDigitRuns(fn_call.text, fn_result[1])
    /\ ~fn_call.bidi_available => Mirrors(fn_call.text, fn_result[1])

C13_Witness ==
  /\ fn_call = [text |-> <<1488, 55, 50, 51>>, bidi_available |-> TRUE]
  /\ fn_result = << <<55, 50, 51, 1488>> >>

PcRank ==
  [p \in {"start", "pass1", "measured", "pass2", "toc", "built", "raised",
          "merged", "done"} |->
     CASE p = "start" -> 0 [] p = "pass1" -> 1 [] p = "measured" -> 2
       [] p = "pass2" -> 3 [] p = "toc" -> 4 [] p = "built" -> 5
       [] p = "raised" -> 5 [] p = "merged" -> 6 [] p = "done" -> 7]

TwoPhaseState ==
  /\ pc \in {"start", "pass1"} => toc_renders = 0 /\ final_entries = <<>>
  /\ pc \in {"measured", "pass2"} =>
       /\ toc_renders = 1
       /\ toc_pdf = <<>>
       /\ actual_toc_pages = make_toc_pdf(draft_entries, template).pages
  /\ pc \in {"toc", "built", "raised", "merged", "done"} =>
       /\ toc_renders = 2
       /\ toc_pdf = make_toc_pdf(final_entries, template).doc
  /\ draft_entries # <<>> =>
       draft_entries[1].start_page = main_pages + 1 + 1
  /\ toc_renders <= 2

TwoPhaseStep ==
  /\ PcRank[pc'] = PcRank[pc] + 1
  /\ toc_renders' # toc_renders =>
       /\ toc_renders' = toc_renders + 1
       /\ pc \in {"pass1", "pass2"}
  /\ final_entries' # final_entries => toc_renders = 1 /\ pc = "measured"
  /\ draft_entries' # draft_entries => toc_renders = 0 /\ pc = "start"

\* C14: the table of contents is rendered exactly twice, first from the
\* draft entries laid out for a one-page table of contents, keeping only the
\* page count, then from the final entries, which are computed after the
\* draft render; the call only moves forward and no third render occurs.
C14_TwoRendersInOrder == []TwoPhaseState /\ [][TwoPhaseStep]_vars

C14_Witness ==
  /\ pc = "done"
  /\ toc_renders = 2
  /\ actual_toc_pages = 2
  /\ draft_entries # final_entries

\* what the cover sheet of appendix i in pdf_list shows
CoverSheet(i) == pdf_list[2 * i + 1][1].body[1]

\* C15: the label, start page and end page on the cover sheet of appendix i
\* are those of entry i printed in the final table of contents; when the
\* measured table of contents is longer than the estimate, no cover sheet
\* shows the range of the draft pass.
C15_CoverMatchesFinalToc ==
  pc \in {"built", "merged", "done"} =>
    LET printed == PrintedEntries(toc_pdf)
    IN  /\ Len(printed) = Len(appendices)
        /\ Len(pdf_list) = 2 + 2 * Len(appendices)
        /\ \A i \in 1..Len(appendices) :
             /\ Len(pdf_list[2 * i + 1]) = 1
             /\ pdf_list[2 * i + 1][1].src = "cover"
             /\ CoverSheet(i).number = printed[i].number
             /\ CoverSheet(i).start_page = printed[i].start_page
             /\ CoverSheet(i).end_page = printed[i].end_page
             /\ printed[i] = final_entries[i]
             /\ actual_toc_pages # estimated_toc_pages =>
                  CoverSheet(i).start_page # draft_entries[i].start_page

C15_Witness ==
  /\ pc = "built"
  /\ actual_toc_pages = 2
  /\ Len(appendices) >= 18
  /\ CoverSheet(18).start_page = final_entries[18].start_page
  /\ CoverSheet(18).start_page = draft_entries[18].start_page + 1

\* every entry ends its page count after its start, and the next one starts
\* on the page after
RangesChained(entries) ==
  /\ Len(entries) = Len(appendices)
  /\ \A i \in 1..Len(entries) :
       /\ entries[i].end_page = entries[i].start_page + appendices[i].pages
       /\ appendices[i].pages = Len(appendices[i].pdf_bytes)
       /\ entries[i].start_page <= entries[i].end_page
       /\ i < Len(entries) => entries[i + 1].start_page = entries[i].end_page + 1

\* C16: in the draft and in the final entries end_page is start_page plus
\* the appendix's content page count, so start_page <= end_page, and the
\* cursor after entry i, where entry i + 1 starts, is end_page + 1.
C16_RangesChained ==
  /\ pc # "start" => RangesChained(draft_entries)
  /\ AfterPass2 => RangesChained(final_entries)

C16_Witness ==
  /\ pc = "pass2"
  /\ Len(appendices) >= 2
  /\ appendices[1].pages >= 2
  /\ draft_entries[2].start_page = draft_entries[1].start_page + appendices[1].pages + 1
  /\ final_entries[2].start_page = final_entries[1].end_page + 1

CeilDiv(a, b) == (a + b - 1) \div b

\* the page count the claim gives for n entries
TocPagesFor(n) == IF n <= 17 THEN 1 ELSE 1 + CeilDiv(n - 17, 19)

\* C17: make_toc_pdf returns 1 page for up to 17 entries and
\* 1 + ceil((n - 17) / 19) pages for more, whatever the labels, titles,
\* page ranges and template; the first page carries the header and 17 rows
\* at most, every later page no header and 19 rows at most.
C17_TocPageCount ==
  fn_result # <<>> =>
    LET toc == fn_result[1]
    IN  /\ toc.pages = TocPagesFor(fn_call.n)
        /\ Len(toc.doc) = toc.pages
        /\ \A p \in 1..toc.pages :
             /\ toc.doc[p].body[1].header = (p = 1)
             /\ Len(toc.doc[p].body[1].rows) <= (IF p = 1 THEN 17 ELSE 19)
             /\ p < toc.pages =>
                  Len(toc.doc[p].body[1].rows) = (IF p = 1 THEN 17 ELSE 19)

C17_Witness ==
  /\ fn_result # <<>>
  /\ fn_call.n = 37
  /\ fn_call.style = "long"
  /\ fn_call.template = "modern"
  /\ fn_result[1].pages = 3

\* the box lies inside the raw page rectangle
BoxInsidePage(page) ==
  LET b == page.stamp[1].box
  IN  /\ 0 <= b.x0 /\ b.x1 <= page.w
      /\ 0 <= b.y0 /\ b.y1 <= page.h

\* the box is stamp_margin away from the two raw page edges of its corner:
\* top-right for rotation 0, bottom-right for 90, bottom-left for 180 and
\* top-left for 270
BoxKeepsMargin(page, r) ==
  LET b == page.stamp[1].box
  IN  /\ r \in {0, 90} => page.w - b.x1 = stamp_margin
      /\ r \in {180, 270} => b.x0 = stamp_margin
      /\ r \in {0, 270} => page.h - b.y1 = stamp_margin
      /\ r \in {90, 180} => b.y0 = stamp_margin

StampWithinPage(r) ==
  Stamped =>
    \A i \in 1..Len(appendices) :
      (HasRotation(i, r) /\ StampedFirstPage(i).w >= 10000
         /\ StampedFirstPage(i).h >= 10000) =>
        /\ BoxInsidePage(StampedFirstPage(i))
        /\ BoxKeepsMargin(StampedFirstPage(i), r)

\* C18: for each rotation 0, 90, 180 and 270 and every page at least 100
\* points wide and high, the stamp box as drawn lies inside the raw page
\* rectangle and keeps the 15-point margin from the two edges of its corner.
C18_StampWithinPage == \A r \in {0, 90, 180, 270} : StampWithinPage(r)

\* the content document of appendix i in pdf_list
ContentDoc(i) == pdf_list[2 * i + 2]

\* page 1 of doc is page 1 of orig under exactly one stamp carrying label
OnlyFirstPageStamped(doc, orig, label) ==
  /\ Len(doc) = Len(orig)
  /\ \A k \in 1..Len(doc) :
       IF k = 1
       THEN /\ Bare(doc[k]) = Bare(orig[k])
            /\ doc[k].number = orig[k].number
            /\ Len(doc[k].stamp) = Len(orig[k].stamp) + 1
            /\ doc[k].stamp[Len(doc[k].stamp)].text = label
       ELSE doc[k] = orig[k]

\* the ranges as a function of the page counts alone
RangeOf(i) ==
  LET first == main_pages + TocPagesFor(Len(appendices)) + 1 + PagesThrough(i - 1)
  IN  [start_page |-> first, end_page |-> first + appendices[i].pages]

\* C19: a returned content document has the pages of the appendix in the
\* same order; with add_marking only page 1 differs, by one stamp, and
\* without add_marking the document is the appendix unchanged; the page
\* ranges are the same function of the page counts in both cases.
C19_OnlyFirstPageStamped ==
  pc \in {"built", "merged", "done"} =>
    \A i \in 1..Len(appendices) :
      /\ IF settings.add_marking
         THEN OnlyFirstPageStamped(ContentDoc(i), appendices[i].pdf_bytes,
                                   final_entries[i].number)
         ELSE ContentDoc(i) = appendices[i].pdf_bytes
      /\ final_entries[i].start_page = RangeOf(i).start_page
      /\ final_entries[i].end_page = RangeOf(i).end_page

C19_Witness ==
  /\ pc = "built"
  /\ settings.add_marking
  /\ Len(appendices) >= 1
  /\ Len(ContentDoc(1)) >= 2
  /\ ContentDoc(1)[1].stamp # <<>>
  /\ ContentDoc(1)[2] = appendices[1].pdf_bytes[2]

=============================================================================
